---- MODULE Spec2Model ----
(***************************************************************************)
(* Model of src/app.py: the momentum / moving-average ranking pipeline of  *)
(* main_app (ticker source -> history loader -> metric engine -> ranker -> *)
(* temp-folder cleanup).                                                    *)
(*                                                                         *)
(* Prices are positive integers and every ratio is an exact fraction in    *)
(* lowest terms (floating-point rounding is not modelled, and a zero       *)
(* starting price, which the code does not handle, is not an input).       *)
(* File-system calls (makedirs, rmtree, to_csv) are taken to succeed.      *)
(***************************************************************************)
EXTENDS Integers, Sequences, FiniteSets, TLC

VARIABLES source, momentum_days, ma_days, wallet_size,
          pc, tickers, i, success_count, dir_exists, files,
          history_data, metrics_df, metrics_filter, top_assets,
          logs, ui, outcomes

vars == <<source, momentum_days, ma_days, wallet_size,
          pc, tickers, i, success_count, dir_exists, files,
          history_data, metrics_df, metrics_filter, top_assets,
          logs, ui, outcomes>>

----------------------------------------------------------------------------
(* Bounds and program constants *)

\* Closing prices of the modelled series range over 1..MaxPrice.
MaxPrice == 2

\* The ranker is modelled for wallet sizes 1..MaxWallet.
MaxWallet == 2

\* tail_momentum = 21 * params['momentum']
TradingDaysPerMonth == 21

\* params['momentum'] = momentum_days // 30
DaysPerMonth == 30

Sources == {"ibrx100", "sp500 (hoje)", "sp100 (2024)"}

PeriodOptions == {30, 90, 180}

WalletOptions == {5, 10, 15, 20}

\* UTC offsets of the exchanges of the three universes (New York, Sao Paulo).
ExchangeUtcOffsets == {-5, -3}

Prices == 1..MaxPrice

----------------------------------------------------------------------------
(* Exact fractions *)

RECURSIVE GCD(_, _)
GCD(a, b) == IF b = 0 THEN a ELSE GCD(b, a % b)

Abs(n) == IF n < 0 THEN -n ELSE n

\* n / d in lowest terms, d > 0
Rat(n, d) == LET g == GCD(Abs(n), d) IN [num |-> n \div g, den |-> d \div g]

RatMinusOne(r) == Rat(r.num - r.den, r.den)

RatLess(a, b) == a.num * b.den < b.num * a.den

RatLeq(a, b) == a.num * b.den <= b.num * a.den

\* s[lo] + ... + s[hi], by halving
RECURSIVE SumRange(_, _, _)
SumRange(s, lo, hi) ==
    IF lo > hi THEN 0
    ELSE IF lo = hi THEN s[lo]
    ELSE LET m == (lo + hi) \div 2
         IN  SumRange(s, lo, m) + SumRange(s, m + 1, hi)

SumSeq(s) == SumRange(s, 1, Len(s))

Min(a, b) == IF a < b THEN a ELSE b

Max(a, b) == IF a < b THEN b ELSE a

----------------------------------------------------------------------------
(* Tickers: a ticker is its text split at '.', e.g. <<"BRK", "B">> *)

RawTickers == {<<"AAPL">>, <<"BRK", "A">>, <<"BRK", "B">>}

\* ticker.split(".")[0]
FileStem(ticker) == Head(ticker)

\* f"{ticker}.SA"
TransformTicker(ticker) == Append(ticker, "SA")

transform_tickers(ts) == [k \in 1..Len(ts) |-> TransformTicker(ts[k])]

\* The lists a ticker source can return: pairwise distinct raw tickers.
TickerLists ==
    {<<>>} \cup {<<t>> : t \in RawTickers}
           \cup {l \in {<<t, u>> : t \in RawTickers, u \in RawTickers} : l[1] # l[2]}

----------------------------------------------------------------------------
(* Data frames: the Date index and the Close column of a price history *)

Timestamp(day, off) == [day |-> day, hour |-> 0, utcoffset |-> off]

\* pd.to_datetime(index, utc=True).tz_localize(None)
ToUtcNaive(ts) ==
    LET total == ts.day * 24 + ts.hour - ts.utcoffset
    IN  [day |-> total \div 24, hour |-> total % 24, utcoffset |-> 0]

\* strftime('%Y-%m-%d')
Strftime(ts) == ts.day

NormalizeIndex(df) ==
    [df EXCEPT !.index = [k \in 1..Len(df.index) |-> ToUtcNaive(df.index[k])]]

LastN(s, n) == IF n >= Len(s) THEN s ELSE SubSeq(s, Len(s) - n + 1, Len(s))

\* df.tail(n)
TailDf(df, n) == [df EXCEPT !.index = LastN(df.index, n), !.Close = LastN(df.Close, n)]

\* float('nan'): every comparison with it is false
NaN == [num |-> 0, den |-> 0]

\* series.rolling(window=w).mean().iloc[-1]; NaN when fewer than w values
RollingMeanLast(s, w) ==
    IF Len(s) < w THEN NaN ELSE Rat(SumSeq(LastN(s, w)), w)

\* A daily history of n bars whose close is `last` on the last bar, `first`
\* on the bar that opens the trailing one-month window, and `mid` elsewhere.
Series(n, last, mid, first, off) ==
    [columns |-> {"Date", "Close"},
     index   |-> [k \in 1..n |-> Timestamp(k, off)],
     Close   |-> [k \in 1..n |-> IF k = n THEN last
                                 ELSE IF n - k = TradingDaysPerMonth - 1 THEN first
                                 ELSE mid]]

\* history() of an unknown symbol: no rows (with the column header)
EmptyFrame == [columns |-> {"Date", "Close"}, index |-> <<>>, Close |-> <<>>]

\* pd.DataFrame(): no rows and no columns
BareFrame == [columns |-> {}, index |-> <<>>, Close |-> <<>>]

\* a history that lacks the Close column
NoCloseFrame(n, off) ==
    [columns |-> {"Date", "Open"},
     index   |-> [k \in 1..n |-> Timestamp(k, off)],
     Close   |-> <<>>]

\* df.empty: no rows, or no column besides the Date index
IsEmpty(df) == Len(df.index) = 0 \/ df.columns \ {"Date"} = {}

Windows == {TradingDaysPerMonth * (d \div DaysPerMonth) : d \in PeriodOptions}

MaxWindow == CHOOSE w \in Windows : \A v \in Windows : v <= w

MinWindow == CHOOSE w \in Windows : \A v \in Windows : w <= v

\* Enough bars for every window, plus one older bar.
FullLength == MaxWindow + 1

----------------------------------------------------------------------------
(* Metric engine: calculate_metrics *)

\* (variants of TooShort with the comparison off by one)
TooShortByTwo(window_df, window) == Len(window_df.index) < window - 1

TooShortOrExact(window_df, window) == Len(window_df.index) <= window

\* len(window_df) < window
TooShort(window_df, window) == Len(window_df.index) < window

\* (variant of Momentum with the ratio inverted)
MomentumInverted(momentum_df) ==
    RatMinusOne(Rat(momentum_df.Close[1], momentum_df.Close[Len(momentum_df.Close)]))

\* (momentum_df['Close'].iloc[-1] / momentum_df['Close'].iloc[0]) - 1
Momentum(momentum_df) ==
    RatMinusOne(Rat(momentum_df.Close[Len(momentum_df.Close)], momentum_df.Close[1]))

\* The body of the per-item try block: a metric row, a silent skip
\* (continue) or an exception.
ProcessItem(item, tail_momentum, tail_moving_average) ==
    LET df == NormalizeIndex(item.data)
        momentum_df == TailDf(df, tail_momentum)
        moving_average_df == TailDf(df, tail_moving_average)
    IN  IF TooShort(momentum_df, tail_momentum) THEN [kind |-> "continue"]
        ELSE IF "Close" \notin df.columns THEN [kind |-> "raise"]
        ELSE IF TooShort(moving_average_df, tail_moving_average)
             THEN [kind |-> "continue"]
        ELSE [kind |-> "row",
              row  |-> [ticker         |-> item.ticker,
                        current_day    |-> Strftime(df.index[Len(df.index)]),
                        current_price  |-> df.Close[Len(df.Close)],
                        momentum       |-> Momentum(momentum_df),
                        moving_average |-> RollingMeanLast(moving_average_df.Close,
                                                           tail_moving_average)]]

\* The per-item try/except: an exception is logged and the item is skipped.
ItemRows(item, tm, tma) ==
    LET r == ProcessItem(item, tm, tma)
    IN  IF r.kind = "row" THEN <<r.row>> ELSE <<>>

RECURSIVE MetricRows(_, _, _)
MetricRows(hist, tm, tma) ==
    IF hist = <<>> THEN <<>>
    ELSE ItemRows(Head(hist), tm, tma) \o MetricRows(Tail(hist), tm, tma)

\* (variant of calculate_metrics without the per-item handler: the first
\* exception reaches the outer handler, which returns an empty DataFrame)
calculate_metrics_unguarded(hist, params) ==
    IF \E k \in 1..Len(hist) :
          ProcessItem(hist[k], TradingDaysPerMonth * params.momentum,
                      TradingDaysPerMonth * params.moving_average).kind = "raise"
    THEN <<>>
    ELSE MetricRows(hist, TradingDaysPerMonth * params.momentum,
                          TradingDaysPerMonth * params.moving_average)

\* the returned DataFrame(metrics): the rows of the items that neither
\* were skipped nor raised
calculate_metrics(hist, params) ==
    MetricRows(hist, TradingDaysPerMonth * params.momentum,
                     TradingDaysPerMonth * params.moving_average)

\* metrics_df.empty
EmptyMetrics(df) == df = <<>>

\* df.index = ... assigns the normalised index to the caller's frame
NormalizedHistory(hist) ==
    [k \in 1..Len(hist) |-> [hist[k] EXCEPT !.data = NormalizeIndex(hist[k].data)]]

ProcessWarnings(hist, params) ==
    {[level |-> "WARNING", event |-> "process", what |-> hist[k].ticker] :
        k \in {j \in 1..Len(hist) :
                  ProcessItem(hist[j], TradingDaysPerMonth * params.momentum,
                              TradingDaysPerMonth * params.moving_average).kind = "raise"}}

Params == [momentum |-> momentum_days \div DaysPerMonth,
           moving_average |-> ma_days \div DaysPerMonth]

----------------------------------------------------------------------------
(* Ranker: filter, sort and truncate in main_app *)

\* (variant of FilterAboveAverage with >= for >)
FilterAtOrAboveAverage(df) ==
    SelectSeq(df, LAMBDA r : RatLeq(r.moving_average, Rat(r.current_price, 1)))

\* metrics_df[metrics_df.current_price > metrics_df.moving_average]
FilterAboveAverage(df) ==
    SelectSeq(df, LAMBDA r : RatLess(r.moving_average, Rat(r.current_price, 1)))

Arrangements(n) ==
    {f \in [1..n -> 1..n] : \A a, b \in 1..n : f[a] = f[b] => a = b}

IsDescending(df) ==
    \A k \in 1..(Len(df) - 1) : RatLeq(df[k + 1].momentum, df[k].momentum)

IsAscending(df) ==
    \A k \in 1..(Len(df) - 1) : RatLeq(df[k].momentum, df[k + 1].momentum)

\* (variant of SortValuesDescending with ascending=True)
SortValuesAscending(df) ==
    {s \in {[k \in 1..Len(df) |-> df[f[k]]] : f \in Arrangements(Len(df))} :
        IsAscending(s)}

\* sort_values(by='momentum', ascending=False): the default sort is not
\* stable, so every descending arrangement of the rows is a possible result.
SortValuesDescending(df) ==
    {s \in {[k \in 1..Len(df) |-> df[f[k]]] : f \in Arrangements(Len(df))} :
        IsDescending(s)}

\* (variant of HeadDf that takes the last n rows)
LastRows(df, n) == SubSeq(df, Len(df) - Min(n, Len(df)) + 1, Len(df))

\* df.head(n)
HeadDf(df, n) == SubSeq(df, 1, Min(n, Len(df)))

----------------------------------------------------------------------------
(* Log records and the temp folder *)

Log(level, event, what) == [level |-> level, event |-> event, what |-> what]

NoFiles == [s \in {} |-> EmptyFrame]

\* to_csv(file_path): creates the file or overwrites it
WriteFile(fs, stem, frame) ==
    [s \in DOMAIN fs \cup {stem} |-> IF s = stem THEN frame ELSE fs[s]]

\* pd.read_csv(file, parse_dates=['Date'], index_col='Date') raises when
\* the file has no Date column
ReadFails(frame) == "Date" \notin frame.columns

\* What the history provider can answer in the pipeline runs: nothing, a
\* short history, a malformed one, a rising and a falling full history.
FetchFrames ==
    {EmptyFrame, BareFrame, NoCloseFrame(FullLength, -5),
     Series(MinWindow - 1, 1, 1, 1, -5),
     Series(FullLength, 2, 1, 1, -3),
     Series(FullLength, 1, 2, 2, -5)}

\* What extract_ibrx100 / extract_sp500 / extract_sp100 return: a list, or
\* [] after logging the failure.
SourceResults ==
    {[tickers |-> l, logs |-> {}] : l \in TickerLists}
    \cup {[tickers |-> <<>>, logs |-> {Log("ERROR", "source", <<>>)}]}

\* The orders in which glob can list the files of the folder
GlobOrders(fs) ==
    LET n == Cardinality(DOMAIN fs)
    IN  {g \in [1..n -> DOMAIN fs] : \A a, b \in 1..n : g[a] = g[b] => a = b}

\* The loop of load_history_data over the listed files
RECURSIVE LoadedRecords(_, _)
LoadedRecords(fs, order) ==
    IF order = <<>> THEN <<>>
    ELSE LET stem == Head(order)
             rest == LoadedRecords(fs, Tail(order))
         IN  IF ReadFails(fs[stem]) \/ IsEmpty(fs[stem]) THEN rest
             ELSE <<[ticker |-> stem, data |-> fs[stem]]>> \o rest

ReadWarnings(fs) ==
    {Log("WARNING", "read", s) : s \in {t \in DOMAIN fs : ReadFails(fs[t])}}

----------------------------------------------------------------------------
(* main_app after the form is submitted *)

Init ==
    /\ source \in Sources
    /\ momentum_days \in PeriodOptions
    /\ ma_days \in PeriodOptions
    /\ wallet_size \in WalletOptions
    /\ pc = "submitted"
    /\ tickers = <<>>
    /\ i = 0
    /\ success_count = 0
    /\ dir_exists = FALSE
    /\ files = NoFiles
    /\ history_data = <<>>
    /\ metrics_df = <<>>
    /\ metrics_filter = <<>>
    /\ top_assets = <<>>
    /\ logs = {}
    /\ ui = "none"
    /\ outcomes = <<>>

\* st.stop(), or the end of the script after a message
Halt(message) ==
    /\ pc' = "done"
    /\ ui' = message

\* source == 'ibrx100'
ResolveIbrx100 ==
    /\ pc = "submitted"
    /\ source = "ibrx100"
    /\ \E file_found \in BOOLEAN :
          IF ~file_found
          THEN /\ Halt("error_file_not_found")
               /\ UNCHANGED <<tickers, logs>>
          ELSE \E r \in SourceResults :
                 /\ logs' = logs \cup r.logs
                 /\ IF r.tickers = <<>>
                    THEN Halt("stopped") /\ UNCHANGED tickers
                    ELSE /\ tickers' = transform_tickers(r.tickers)
                         /\ pc' = "extract"
                         /\ UNCHANGED ui
    /\ UNCHANGED <<source, momentum_days, ma_days, wallet_size, i, success_count,
                   dir_exists, files, history_data, metrics_df, metrics_filter,
                   top_assets, outcomes>>

\* source == 'sp100 (2024)'
ResolveSp100 ==
    /\ pc = "submitted"
    /\ source = "sp100 (2024)"
    /\ \E r \in SourceResults :
          /\ logs' = logs \cup r.logs
          /\ tickers' = r.tickers
          /\ pc' = "extract"
    /\ UNCHANGED <<source, momentum_days, ma_days, wallet_size, i, success_count,
                   dir_exists, files, history_data, metrics_df, metrics_filter,
                   top_assets, ui, outcomes>>

\* the else branch: sp500
ResolveSp500 ==
    /\ pc = "submitted"
    /\ source = "sp500 (hoje)"
    /\ \E r \in SourceResults :
          /\ logs' = logs \cup r.logs
          /\ IF r.tickers = <<>>
             THEN Halt("stopped") /\ UNCHANGED tickers
             ELSE /\ tickers' = r.tickers
                  /\ pc' = "extract"
                  /\ UNCHANGED ui
    /\ UNCHANGED <<source, momentum_days, ma_days, wallet_size, i, success_count,
                   dir_exists, files, history_data, metrics_df, metrics_filter,
                   top_assets, outcomes>>

\* extract_history_data up to its loop: the folder is created, then the
\* progress widgets are set up inside the outer try.
ExtractStart ==
    /\ pc = "extract"
    /\ dir_exists' = TRUE
    /\ \E widgets_ok \in BOOLEAN :
          IF widgets_ok
          THEN /\ pc' = "download"
               /\ UNCHANGED <<logs, ui>>
          ELSE /\ logs' = logs \cup {Log("ERROR", "extract", <<>>)}
               /\ Halt("error_extract")
    /\ UNCHANGED <<source, momentum_days, ma_days, wallet_size, tickers, i,
                   success_count, files, history_data, metrics_df, metrics_filter,
                   top_assets, outcomes>>

\* One pass of the download loop: the fetch raises, or its frame is saved.
DownloadTicker ==
    /\ pc = "download"
    /\ i < Len(tickers)
    /\ LET ticker == tickers[i + 1]
       IN  \/ /\ logs' = logs \cup {Log("WARNING", "download", ticker)}
              /\ outcomes' = Append(outcomes, [ticker |-> ticker, result |-> "raised"])
              /\ UNCHANGED <<files, success_count>>
           \/ \E frame \in FetchFrames :
                /\ files' = WriteFile(files, FileStem(ticker), frame)
                /\ success_count' = success_count + 1
                /\ outcomes' = Append(outcomes,
                       [ticker |-> ticker,
                        result |-> IF Len(frame.index) = 0 THEN "empty" ELSE "series",
                        frame  |-> frame])
                /\ UNCHANGED logs
    /\ i' = i + 1
    /\ UNCHANGED <<source, momentum_days, ma_days, wallet_size, pc, tickers,
                   dir_exists, history_data, metrics_df, metrics_filter,
                   top_assets, ui>>

\* extract_history_data returns True; load_history_data reads the folder.
LoadHistoryData ==
    /\ pc = "download"
    /\ i = Len(tickers)
    /\ dir_exists' = TRUE
    /\ IF DOMAIN files = {}
       THEN /\ logs' = logs \cup {Log("ERROR", "no_files", <<>>)}
            /\ history_data' = <<>>
       ELSE /\ logs' = logs \cup ReadWarnings(files)
            /\ \E order \in GlobOrders(files) :
                  history_data' = LoadedRecords(files, order)
    /\ IF history_data' = <<>>
       THEN Halt("error_load")
       ELSE pc' = "metrics" /\ UNCHANGED ui
    /\ UNCHANGED <<source, momentum_days, ma_days, wallet_size, tickers, i,
                   success_count, files, metrics_df, metrics_filter, top_assets,
                   outcomes>>

\* metrics_df = calculate_metrics(history_data, params)
CalculateMetrics ==
    /\ pc = "metrics"
    /\ metrics_df' = calculate_metrics(history_data, Params)
    /\ history_data' = NormalizedHistory(history_data)
    /\ logs' = logs \cup ProcessWarnings(history_data, Params)
    /\ IF EmptyMetrics(metrics_df')
       THEN Halt("error_metrics")
       ELSE pc' = "rank" /\ UNCHANGED ui
    /\ UNCHANGED <<source, momentum_days, ma_days, wallet_size, tickers, i,
                   success_count, dir_exists, files, metrics_filter, top_assets,
                   outcomes>>

\* Filter, sort, truncate, show, and remove the temp folder.  A DataFrame
\* built from no rows has no current_price column: the filter would raise.
Rank ==
    /\ pc = "rank"
    /\ IF metrics_df = <<>>
       THEN /\ Halt("exception")
            /\ UNCHANGED <<metrics_filter, top_assets, dir_exists, files>>
       ELSE /\ metrics_filter' = FilterAboveAverage(metrics_df)
            /\ \E metrics_sorted \in SortValuesDescending(metrics_filter') :
                  IF metrics_sorted # <<>>
                  THEN /\ top_assets' = HeadDf(metrics_sorted, wallet_size)
                       /\ dir_exists' = FALSE
                       /\ files' = NoFiles
                       /\ Halt("success")
                  ELSE /\ Halt("warning_no_asset")
                       /\ UNCHANGED <<top_assets, dir_exists, files>>
    /\ UNCHANGED <<source, momentum_days, ma_days, wallet_size, tickers, i,
                   success_count, history_data, metrics_df, logs, outcomes>>

Next ==
    \/ ResolveIbrx100
    \/ ResolveSp100
    \/ ResolveSp500
    \/ ExtractStart
    \/ DownloadTicker
    \/ LoadHistoryData
    \/ CalculateMetrics
    \/ Rank

Spec == Init /\ [][Next]_vars

----------------------------------------------------------------------------
(* The metric engine and the ranker on their own inputs *)

\* The history lengths at and next to the window lengths
BoundaryLengths == UNION {{w - 1, w, w + 1} : w \in Windows}

DefaultWallet == CHOOSE w \in WalletOptions : \A v \in WalletOptions : w <= v

\* The state of main_app once `history` has been loaded from the folder
\* `fs`, for (momentum_days, ma_days, wallet_size) = (md, mad, ws)
AtMetrics(history, md, mad, ws) ==
    /\ source = "sp500 (hoje)"
    /\ momentum_days = md
    /\ ma_days = mad
    /\ wallet_size = ws
    /\ pc = "metrics"
    /\ tickers = [k \in 1..Len(history) |-> <<history[k].ticker>>]
    /\ i = Len(history)
    /\ success_count = Len(history)
    /\ dir_exists = TRUE
    /\ files = [s \in {history[k].ticker : k \in 1..Len(history)} |->
                  (CHOOSE r \in {history[k] : k \in 1..Len(history)} : r.ticker = s).data]
    /\ history_data = history
    /\ metrics_df = <<>>
    /\ metrics_filter = <<>>
    /\ top_assets = <<>>
    /\ logs = {}
    /\ ui = "none"
    /\ outcomes = [k \in 1..Len(history) |->
                     [ticker |-> <<history[k].ticker>>, result |-> "series",
                      frame |-> history[k].data]]

\* One history of every boundary length, price shape and exchange, and the
\* malformed ones
EngineFrames ==
    {Series(n, l, m, f, off) :
        n \in BoundaryLengths, l \in Prices, m \in Prices, f \in Prices,
        off \in ExchangeUtcOffsets}
    \cup {NoCloseFrame(n, -5) : n \in BoundaryLengths}

\* A second history of every boundary length
LengthFrames == {Series(n, 1, 1, 1, -5) : n \in BoundaryLengths}

EngineHistories ==
    {<<[ticker |-> "AAPL", data |-> a]>> : a \in EngineFrames}
    \cup {<<[ticker |-> "AAPL", data |-> a], [ticker |-> "BRK", data |-> b]>> :
             a \in EngineFrames, b \in LengthFrames}

EngineInit ==
    \E history \in EngineHistories, md \in PeriodOptions, mad \in PeriodOptions :
        AtMetrics(history, md, mad, DefaultWallet)

EngineNext == CalculateMetrics \/ Rank

SpecEngine == EngineInit /\ [][EngineNext]_vars

\* Histories of one bar more than the shortest window, of every price shape
RankerFrames ==
    {Series(MinWindow + 1, l, m, f, -5) : l \in Prices, m \in Prices, f \in Prices}

RankerHistories ==
    {<<[ticker |-> "AAPL", data |-> a]>> : a \in RankerFrames}
    \cup {<<[ticker |-> "AAPL", data |-> a], [ticker |-> "BRK", data |-> b]>> :
             a \in RankerFrames, b \in RankerFrames}
    \cup {<<[ticker |-> "AAPL", data |-> a], [ticker |-> "BRK", data |-> b],
             [ticker |-> "MSFT", data |-> c]>> :
             a \in RankerFrames, b \in RankerFrames, c \in RankerFrames}

\* The small wallet sizes, which truncate, and the form's default
WalletSizes == (1..MaxWallet) \cup {DefaultWallet}

ShortestPeriod == CHOOSE d \in PeriodOptions : \A e \in PeriodOptions : d <= e

RankerInit ==
    \E history \in RankerHistories, ws \in WalletSizes :
        AtMetrics(history, ShortestPeriod, ShortestPeriod, ws)

RankerNext == CalculateMetrics \/ Rank

SpecRanker == RankerInit /\ [][RankerNext]_vars

----------------------------------------------------------------------------
(* Properties *)

MomentumWindow == TradingDaysPerMonth * (momentum_days \div DaysPerMonth)

MaWindow == TradingDaysPerMonth * (ma_days \div DaysPerMonth)

ErrorMessages ==
    {"error_file_not_found", "error_extract", "error_load", "error_metrics", "exception"}

\* load_history_data has returned
Loaded ==
    \/ pc \in {"metrics", "rank"}
    \/ pc = "done" /\ ui \in {"error_load", "error_metrics", "success",
                               "warning_no_asset", "exception"}

\* calculate_metrics has returned
MetricsComputed ==
    \/ pc = "rank"
    \/ pc = "done" /\ ui \in {"error_metrics", "success", "warning_no_asset", "exception"}

\* the filter, sort and truncation have run
Ranked == pc = "done" /\ ui \in {"success", "warning_no_asset"}

Records == 1..Len(history_data)

Observations(j) == Len(history_data[j].data.index)

HasRow(t) == \E k \in 1..Len(metrics_df) : metrics_df[k].ticker = t

InPortfolio(t) == \E k \in 1..Len(top_assets) : top_assets[k].ticker = t

\* C1: a metric row is emitted for a ticker only if its history has at
\* least max(momentum_window, ma_window) observations; a ticker with fewer
\* is in neither the metric collection nor the portfolio, every row belongs
\* to an input record, and there are no more rows than input records.
C1_RowsNeedBothWindows ==
    MetricsComputed =>
        /\ \A j \in Records :
              Observations(j) < Max(MomentumWindow, MaWindow) =>
                  /\ ~HasRow(history_data[j].ticker)
                  /\ ~InPortfolio(history_data[j].ticker)
        /\ \A k \in 1..Len(metrics_df) :
              \E j \in Records : history_data[j].ticker = metrics_df[k].ticker
        /\ \A k \in 1..Len(top_assets) : HasRow(top_assets[k].ticker)
        /\ Len(metrics_df) <= Len(history_data)

\* A ticker with enough bars for the shorter window only is left out while
\* another ticker gets its row.
C1_Witness ==
    /\ MetricsComputed
    /\ \E j \in Records :
          /\ Observations(j) >= Min(MomentumWindow, MaWindow)
          /\ Observations(j) < Max(MomentumWindow, MaWindow)
          /\ ~HasRow(history_data[j].ticker)
    /\ Len(metrics_df) >= 1

\* C9 as stated: for every pair of window lengths, a ticker whose price
\* history has exactly momentum_window observations is included and one
\* with momentum_window - 1 observations is excluded.
C9_ExactWindowIncluded ==
    MetricsComputed =>
        \A j \in Records :
            /\ ( /\ Observations(j) = MomentumWindow
                 /\ "Close" \in history_data[j].data.columns )
               => HasRow(history_data[j].ticker)
            /\ Observations(j) = MomentumWindow - 1 => ~HasRow(history_data[j].ticker)

\* C9 amended: a ticker whose price history has exactly momentum_window
\* observations is included when ma_window <= momentum_window; one with
\* momentum_window - 1 observations is excluded for every pair of window
\* lengths.
C9_ExactWindowIncludedIfLongest ==
    MetricsComputed =>
        \A j \in Records :
            /\ ( /\ Observations(j) = MomentumWindow
                 /\ MaWindow <= MomentumWindow
                 /\ "Close" \in history_data[j].data.columns )
               => HasRow(history_data[j].ticker)
            /\ Observations(j) = MomentumWindow - 1 => ~HasRow(history_data[j].ticker)

\* Both sides of the boundary in one run.
C9_Witness ==
    /\ MetricsComputed
    /\ \E j \in Records :
          Observations(j) = MomentumWindow /\ HasRow(history_data[j].ticker)
    /\ \E j \in Records :
          Observations(j) = MomentumWindow - 1 /\ ~HasRow(history_data[j].ticker)

\* C10: every metric row has momentum = close[-1] / close[-momentum_window] - 1
\* of the ticker's saved history, current_price = its last close and
\* as_of_date = its last date.
C10_RowValues ==
    pc = "rank" =>
        \A k \in 1..Len(metrics_df) :
            LET saved == files[metrics_df[k].ticker]
                n     == Len(saved.Close)
                first == saved.Close[n - MomentumWindow + 1]
            IN  /\ metrics_df[k].momentum = Rat(saved.Close[n] - first, first)
                /\ metrics_df[k].current_price = saved.Close[n]
                /\ metrics_df[k].current_day = saved.index[n].day

\* A row with non-zero momentum whose history has a bar older than the
\* momentum window with another close, under a different ma_window.
C10_Witness ==
    /\ pc = "rank"
    /\ MaWindow # MomentumWindow
    /\ \E k \in 1..Len(metrics_df) :
          LET saved == files[metrics_df[k].ticker]
              n     == Len(saved.Close)
          IN  /\ n > MomentumWindow
              /\ saved.Close[n - MomentumWindow] # saved.Close[n - MomentumWindow + 1]
              /\ metrics_df[k].momentum.num # 0

AboveAverage(r) == r.current_price * r.moving_average.den > r.moving_average.num

AtAverage(r) == r.current_price * r.moving_average.den = r.moving_average.num

Passing == {k \in 1..Len(metrics_df) : AboveAverage(metrics_df[k])}

\* C6: a metric row is kept iff current_price > moving_average; every row
\* of the portfolio is strictly above its average and none is at it.
C6_StrictFilter ==
    Ranked =>
        /\ \A k \in 1..Len(metrics_df) :
              (\E j \in 1..Len(metrics_filter) : metrics_filter[j] = metrics_df[k])
                  <=> AboveAverage(metrics_df[k])
        /\ \A k \in 1..Len(top_assets) :
              AboveAverage(top_assets[k]) /\ ~AtAverage(top_assets[k])

\* A row at its average is left out of a non-empty portfolio.
C6_Witness ==
    /\ Ranked
    /\ top_assets # <<>>
    /\ \E k \in 1..Len(metrics_df) :
          AtAverage(metrics_df[k]) /\ ~InPortfolio(metrics_df[k].ticker)

\* C7: the portfolio has min(wallet_size, passing rows) rows, all of them
\* distinct passing rows, and no passing row left out has a higher
\* momentum than a row of the portfolio.
C7_TopOfPassing ==
    Ranked =>
        /\ Len(top_assets) = Min(wallet_size, Cardinality(Passing))
        /\ \A k \in 1..Len(top_assets) :
              \E p \in Passing : metrics_df[p] = top_assets[k]
        /\ \A a, b \in 1..Len(top_assets) :
              top_assets[a].ticker = top_assets[b].ticker => a = b
        /\ \A p \in Passing :
              ~InPortfolio(metrics_df[p].ticker) =>
                  \A k \in 1..Len(top_assets) :
                      metrics_df[p].momentum.num * top_assets[k].momentum.den
                          <= top_assets[k].momentum.num * metrics_df[p].momentum.den

\* The truncation drops a passing row of lower momentum, and the filter
\* drops another row.
C7_Witness ==
    /\ Ranked
    /\ wallet_size < Cardinality(Passing)
    /\ Cardinality(Passing) < Len(metrics_df)
    /\ \E p \in Passing :
          /\ ~InPortfolio(metrics_df[p].ticker)
          /\ metrics_df[p].momentum.num * top_assets[1].momentum.den
                 < top_assets[1].momentum.num * metrics_df[p].momentum.den

\* C8: adjacent rows of the portfolio are in descending order of momentum.
C8_Descending ==
    Ranked =>
        \A k \in 1..(Len(top_assets) - 1) :
            top_assets[k].momentum.num * top_assets[k + 1].momentum.den
                >= top_assets[k + 1].momentum.num * top_assets[k].momentum.den

\* A portfolio of three rows: a tie followed by a lower momentum.
C8_Witness ==
    /\ Ranked
    /\ Len(top_assets) >= 3
    /\ top_assets[1].momentum = top_assets[2].momentum
    /\ top_assets[3].momentum.num * top_assets[2].momentum.den
           < top_assets[2].momentum.num * top_assets[3].momentum.den

HasRecord(t) == \E j \in Records : history_data[j].ticker = t

FailureLogged(ticker) ==
    \/ Log("WARNING", "download", ticker) \in logs
    \/ Log("WARNING", "read", FileStem(ticker)) \in logs

\* C2: a failed fetch (exception or empty series) never aborts the batch:
\* every ticker of the list is fetched, each failure is logged, a failed
\* ticker has no loaded record, and every ticker fetched with a non-empty
\* series has one.
C2_FailuresIsolatedAndLogged ==
    Loaded =>
        /\ Len(outcomes) = Len(tickers)
        /\ \A k \in 1..Len(outcomes) :
              /\ outcomes[k].ticker = tickers[k]
              /\ outcomes[k].result # "series" =>
                    /\ FailureLogged(tickers[k])
                    /\ ~HasRecord(FileStem(tickers[k]))
              /\ outcomes[k].result = "series" => HasRecord(FileStem(tickers[k]))

\* the ticker source was called and returned no ticker
EmptyUniverse == pc # "submitted" /\ tickers = <<>> /\ ui # "error_file_not_found"

\* C3: when the ticker source returns an empty list, whatever the universe,
\* the history loader is not invoked: no folder is created, nothing is
\* downloaded or computed, and the pipeline reports no error.
C3_EmptyUniverseHalts ==
    EmptyUniverse =>
        /\ ~dir_exists
        /\ pc \notin {"download", "metrics", "rank"}
        /\ ui \notin ErrorMessages

\* C4: at the end of a run that created the temp folder, the folder is
\* gone if a portfolio (possibly empty) was produced and is still there if
\* extraction, loading or metric computation failed.
C4_FolderRemovedOnSuccess ==
    pc = "done" =>
        /\ ui \in {"success", "warning_no_asset"} => ~dir_exists
        /\ ui \in {"error_extract", "error_load", "error_metrics"} => dir_exists

\* a record the metric engine can process: a Close column and enough bars
Processable(j) ==
    /\ "Close" \in history_data[j].data.columns
    /\ Observations(j) >= Max(MomentumWindow, MaWindow)

\* an exception in one record costs no other record its row
OnlyFailingItemsExcluded ==
    MetricsComputed =>
        \A j \in Records : Processable(j) => HasRow(history_data[j].ticker)

AllFetchedWithSeries ==
    /\ Len(outcomes) = Len(tickers)
    /\ \A k \in 1..Len(outcomes) :
          /\ outcomes[k].result = "series"
          /\ ~IsEmpty(outcomes[k].frame)
          /\ ~ReadFails(outcomes[k].frame)

\* C11: when every ticker of a list of pairwise distinct tickers is fetched
\* with a non-empty series, the history loader yields exactly one record
\* per input ticker, each record holds the series fetched for that ticker,
\* and the file saved for a ticker still holds that ticker's series (no
\* later ticker of the run has overwritten it).
C11_OneRecordPerTicker ==
    (pc = "metrics" /\ AllFetchedWithSeries) =>
        /\ Len(history_data) = Len(tickers)
        /\ \A k \in 1..Len(tickers) :
              /\ files[FileStem(tickers[k])] = outcomes[k].frame
              /\ \E j \in Records :
                    /\ history_data[j].ticker = FileStem(tickers[k])
                    /\ history_data[j].data = outcomes[k].frame

====
